---------------------------- MODULE Spec2Model ----------------------------
(***************************************************************************)
(* A model of dataset.py of military_ai: the article sampler               *)
(* (_sample_article), the golden-span locator (find_golden_span) and the   *)
(* mini-batch assembler (gen_mini_batches, _one_mini_batch,                *)
(* _dynamic_padding, _gen_hand_features).                                  *)
(*                                                                         *)
(* A character is a one-letter string, a Python string is a sequence of    *)
(* characters, a token is a Python string, and a token list is a sequence  *)
(* of tokens.  "S" stands for the paragraph separator '\001', "P" for the  *)
(* full-width period, " " for a blank.  Python positions are 0-based; the  *)
(* sequences here are 1-based, and every place that converts says so.      *)
(***************************************************************************)
EXTENDS Integers, Sequences, FiniteSets, Bags, TLC

VARIABLES
  pc,               \* position of the modelled call
  article_tokens,   \* _sample_article: the article's token list
  article_flags,    \* _sample_article: the parallel tag list
  question_tokens,  \* _sample_article: the question's token list
  max_token_num,    \* _sample_article: the token budget
  sampled,          \* what the call of _sample_article produced
  answer_tokens,    \* find_golden_span: the answer's token list
  span,             \* what find_golden_span returned
  sample,           \* the sample _preprocess_raw built for one question
  train_set,        \* self.train_set, self.dev_set, self.test_set: sample lists
  dev_set,
  test_set,
  dev_split,        \* the dev_split argument of __init__, as a quotient
  elmo_vocab,       \* self.elmo_vocab
  use_char_emb,     \* self.use_char_emb
  p_max_tokens_len, \* self.p_max_tokens_len, ... (lines 79-85)
  q_max_tokens_len,
  p_token_max_len,
  q_token_max_len,
  set_name,         \* gen_mini_batches: its arguments
  batch_size,
  shuffle,
  indices,          \* gen_mini_batches: the index array of the epoch
  batch_start,      \* gen_mini_batches: the loop variable
  yielded,          \* the index lists of the batches yielded in this epoch
  restarted,        \* whether gen_mini_batches was called again after an epoch
  raw_file,         \* the file at train_raw_path[i] / test_raw_path[i]
  pre_file,         \* the file at train_preprocessed_path[i] / test_..._path[i]
  is_train,         \* whether the file is a train file (lines 99-106) or a test file
  load_path,        \* how the last run of _load_dataset got its samples
  loaded_ids,       \* the article ids of the samples the last run loaded
  fallbacks,        \* the calls of _preprocess_raw in the last run
  regenerated,      \* whether an earlier call of _preprocess_raw completed
  aborted,          \* whether an earlier call of _preprocess_raw raised
  sent_scores,      \* _sample_article: scores, one per sentence (line 146)
  sent_rank         \* _sample_article: s_rank after the loop of lines 150-164

callVars == <<article_tokens, article_flags, question_tokens, max_token_num,
              sampled, answer_tokens, span, sample>>
dataVars == <<train_set, dev_set, test_set, dev_split, elmo_vocab, use_char_emb,
              p_max_tokens_len, q_max_tokens_len, p_token_max_len,
              q_token_max_len>>
genVars == <<set_name, batch_size, shuffle, indices, batch_start, yielded,
             restarted>>

fileVars == <<raw_file, pre_file, is_train, load_path, loaded_ids, fallbacks,
              regenerated, aborted>>

rankVars == <<sent_scores, sent_rank>>

vars == <<pc, callVars, dataVars, genVars, fileVars, rankVars>>

----------------------------------------------------------------------------
(* Bounds of the model. *)

MaxArtLen == 5
MaxBudget == 4
MaxSpanArtLen == 4
MaxAnsLen == 2
SpanBudget == 2
MaxSet == 3
MaxBatch == 2
MaxRecords == 3
MaxSentences == 6

----------------------------------------------------------------------------
(* Generic helpers: Python list and string primitives. *)

Min(a, b) == IF a <= b THEN a ELSE b
Max(a, b) == IF a >= b THEN a ELSE b

\* seq[:k] for k >= 0
Take(seq, k) == SubSeq(seq, 1, Min(k, Len(seq)))

\* list(reversed(seq))
Reverse(seq) == [i \in 1..Len(seq) |-> seq[Len(seq) + 1 - i]]

\* set(str)
CharSet(str) == {str[i] : i \in 1..Len(str)}

\* ''.join(tokens)
RECURSIVE Join(_)
Join(tokens) ==
  IF tokens = <<>> THEN <<>> ELSE Head(tokens) \o Join(Tail(tokens))

\* `t in s` for two Python strings: t occurs in s as a substring
IsSubstring(t, s) ==
  \E i \in 0..(Len(s) - Len(t)) : SubSeq(s, i + 1, i + Len(t)) = t

\* str.strip(): leading and trailing blanks removed
RECURSIVE LStrip(_)
LStrip(str) ==
  IF str # <<>> /\ Head(str) = " " THEN LStrip(Tail(str)) ELSE str

Strip(str) == Reverse(LStrip(Reverse(LStrip(str))))

\* All sequences over S of length at most n
SeqsUpTo(S, n) == UNION {[1..k -> S] : k \in 0..n}

----------------------------------------------------------------------------
(* Rational numbers n/d with d >= 1, for the scores (Python floats that    *)
(* are quotients of small integers, halved and quartered exactly).         *)

Rat(n, d) == [n |-> n, d |-> d]
Zero == Rat(0, 1)
RatLess(a, b) == a.n * b.d < b.n * a.d
RatLeq(a, b) == a.n * b.d <= b.n * a.d
RatMax(a, b) == IF RatLess(a, b) THEN b ELSE a
RatPos(a) == a.n > 0
\* a / k for an integer k >= 1
RatDiv(a, k) == Rat(a.n, a.d * k)

----------------------------------------------------------------------------
(* RougeL (utils/rouge.py): the longest-common-subsequence scorer.         *)

RECURSIVE lcs(_, _)
lcs(a, b) ==
  IF a = <<>> \/ b = <<>> THEN 0
  ELSE IF Head(a) = Head(b) THEN 1 + lcs(Tail(a), Tail(b))
  ELSE Max(lcs(Tail(a), b), lcs(a, Tail(b)))

\* r_scores[-1] after add_inst(cand, ref): LCS recall
r_score(cand, ref) ==
  IF Len(ref) > 0 THEN Rat(lcs(cand, ref), Len(ref)) ELSE Zero

\* gamma^2 = 1.44 as GammaSqNum / GammaSqDen
GammaSqNum == 36
GammaSqDen == 25

\* inst_scores[-1] after add_inst(cand, ref):
\*   (1 + g^2) * prec * rec / (rec + g^2 * prec), 0 when prec or rec is 0,
\* which with prec = l/|cand| and rec = l/|ref| is
\*   (1 + g^2) * l / (|cand| + g^2 * |ref|)
inst_score(cand, ref) ==
  LET l == lcs(cand, ref) IN
  IF l = 0 THEN Zero
  ELSE Rat((GammaSqDen + GammaSqNum) * l,
           GammaSqDen * Len(cand) + GammaSqNum * Len(ref))

----------------------------------------------------------------------------
(* _sample_article *)

\* the string '\001。' of the membership test at line 136
Seps == <<"S", "P">>

\* lines 132-141: the loop that cuts the article into sentences;
\* idx is the 1-based position, cur the open sentence, acc the closed ones
RECURSIVE SplitLoop(_, _, _, _, _)
SplitLoop(tokens, flags, idx, cur, acc) ==
  IF idx > Min(Len(tokens), Len(flags)) THEN acc
  ELSE
    LET c == [s |-> Append(cur.s, tokens[idx]), f |-> Append(cur.f, flags[idx])]
    IN  IF IsSubstring(tokens[idx], Seps) \/ idx = Len(tokens)
        THEN SplitLoop(tokens, flags, idx + 1, [s |-> <<>>, f |-> <<>>],
                       [s |-> Append(acc.s, c.s), f |-> Append(acc.f, c.f)])
        ELSE SplitLoop(tokens, flags, idx + 1, c, acc)

Sentences(tokens, flags) ==
  SplitLoop(tokens, flags, 1, [s |-> <<>>, f |-> <<>>], [s |-> <<>>, f |-> <<>>])

\* lines 143-146: the recall score of every sentence against the question
SentenceScores(sentences, question) ==
  [k \in 1..Len(sentences) |-> r_score(Join(sentences[k]), question)]

\* np.argsort(vals): every ascending order of the positions; the order of
\* equal values is left open by the default (unstable) sort
RECURSIVE ArgSortsFrom(_, _)
ArgSortsFrom(vals, rem) ==
  IF rem = {} THEN {<<>>}
  ELSE UNION { { <<m>> \o rest : rest \in ArgSortsFrom(vals, rem \ {m}) } :
               m \in {x \in rem : \A y \in rem : RatLeq(vals[x], vals[y])} }

argsort(vals) == ArgSortsFrom(vals, 1..Len(vals))

ProtectedNone(n) == {}

\* [0, 1, len(sentences) - 1] (lines 154 and 176) as 1-based positions
Protected(n) == {1, 2, n}

\* range(15) at line 150
TopK == 15

\* line 160: block_scores[k] for k = 0..5
BlockScore(score, k) ==
  CASE k = 0 -> RatDiv(score, 2)
    [] k = 1 -> score
    [] k = 2 -> score
    [] k = 3 -> score
    [] k = 4 -> RatDiv(score, 2)
    [] k = 5 -> RatDiv(score, 4)

\* lines 160-164: s_rank[pos-2 : pos+4] = max(block_scores, s_rank[pos-2 : pos+4]);
\* pos is never protected, so pos - 2 is never negative and the slice never
\* counts from the end
UpdateBlock(s_rank, pos, score) ==
  [j \in 1..Len(s_rank) |->
     IF j >= pos - 2 /\ j <= pos + 3
     THEN RatMax(BlockScore(score, j - (pos - 2)), s_rank[j])
     ELSE s_rank[j]]

\* lines 150-164; i is the loop variable (0-based), arg_sorted the reversed argsort
RECURSIVE SpreadLoop(_, _, _, _)
SpreadLoop(scores, arg_sorted, i, s_rank) ==
  IF i >= TopK \/ i >= Len(scores) THEN s_rank
  ELSE
    LET pos == arg_sorted[i + 1] IN
    IF pos \in Protected(Len(scores))
    THEN SpreadLoop(scores, arg_sorted, i + 1, s_rank)
    ELSE SpreadLoop(scores, arg_sorted, i + 1, UpdateBlock(s_rank, pos, scores[pos]))

\* lines 175-184: append the ranked sentences; k is the 1-based place in rank
RECURSIVE AppendLoop(_, _, _, _, _, _)
AppendLoop(sent, s_rank, rank, k, cand, budget) ==
  IF k > Len(rank) THEN cand
  ELSE
    LET pos == rank[k] IN
    IF pos \in Protected(Len(s_rank))
    THEN AppendLoop(sent, s_rank, rank, k + 1, cand, budget)
    ELSE IF RatPos(s_rank[pos])
    THEN LET c == [s |-> cand.s \o sent.s[pos], f |-> cand.f \o sent.f[pos]]
         IN  IF Len(c.s) > budget THEN c
             ELSE AppendLoop(sent, s_rank, rank, k + 1, c, budget)
    ELSE cand

AnchorsNoLast(sent) ==
  [s |-> sent.s[1] \o sent.s[2], f |-> sent.f[1] \o sent.f[2]]

\* lines 166-171: the first, the second and the last sentence
Anchors(sent) ==
  LET n == Len(sent.s) IN
  [s |-> sent.s[1] \o sent.s[2] \o sent.s[n],
   f |-> sent.f[1] \o sent.f[2] \o sent.f[n]]

Returned(tokens, flags) == [status |-> "ok", tokens |-> tokens, flags |-> flags]
Raised(what) == [status |-> what, tokens |-> <<>>, flags |-> <<>>]

\* lines 127-189, for an article longer than the budget: every result the
\* two sorts allow
SampleLong(tokens, flags, q_tokens, budget) ==
  LET sent == Sentences(tokens, flags)
      n == Len(sent.s)
      scores == SentenceScores(sent.s, Join(q_tokens))
  IN  IF n < 2 THEN {Raised("IndexError")}   \* sentences[1] at line 168
      ELSE
        LET s_ranks == { SpreadLoop(scores, Reverse(a), 0, [k \in 1..n |-> Zero])
                         : a \in argsort(scores) }
        IN  UNION {
              { LET cand == AppendLoop(sent, s_rank, Reverse(r), 1, Anchors(sent), budget)
                IN  Returned(Take(cand.s, budget), Take(cand.f, budget))
                : r \in argsort(s_rank) }
              : s_rank \in s_ranks }

FitsBudgetStrict(tokens, budget) == Len(tokens) < budget

\* line 125
FitsBudget(tokens, budget) == Len(tokens) <= budget

\* lines 117-189: the set of results of one call
_sample_article(tokens, flags, q_tokens, budget) ==
  IF FitsBudget(tokens, budget)
  THEN {Returned(tokens, flags)}
  ELSE SampleLong(tokens, flags, q_tokens, budget)

----------------------------------------------------------------------------
(* find_golden_span *)

\* seq[a:b] for a >= 0; a negative b counts from the end
PySlice(seq, a, b) ==
  LET stop == IF b < 0 THEN Max(Len(seq) + b, 0) ELSE Min(b, Len(seq))
  IN  SubSeq(seq, a + 1, stop)

\* 0.4 at line 33, as IouNum / IouDen
IouNum == 2
IouDen == 5

OverThresholdAny(inter, mlen) == inter > 0

\* lines 31-33: iou = inter / mlen if mlen != 0 else 0.0; iou > 0.4
OverThreshold(inter, mlen) ==
  mlen # 0 /\ IouDen * inter > IouNum * mlen

\* lines 29-33: the candidate string of (i, t_len) passes the overlap filter
Overlaps(tokens, ground_ans, i, t_len) ==
  LET s1 == CharSet(Strip(Join(PySlice(tokens, i, i + t_len))))
      s2 == CharSet(ground_ans)
  IN  OverThreshold(Cardinality(s1 \cap s2), Max(Cardinality(s1), Cardinality(s2)))

\* lines 34-35: the ROUGE-L score of the candidate string of (i, t_len)
CandScore(tokens, ground_ans, i, t_len) ==
  inst_score(Strip(Join(PySlice(tokens, i, i + t_len))), ground_ans)

SpanOfOffByOne(i, t_len) == <<i, i + t_len>>

\* line 38: best_idx = [i, i + t_len - 1]
SpanOf(i, t_len) == <<i, i + t_len - 1>>

\* range(len_p - len_a + 1) at line 25: the start positions visited, 0-based
StartRange(len_p, len_a) == 0..(len_p - len_a)

\* line 26
Lengths(len_a) == <<len_a - 1, len_a, len_a + 1>>

\* lines 25-38: the two nested loops; i is the start (0-based), k the place in
\* Lengths, best the pair (best_idx, best_score)
RECURSIVE SpanLoop(_, _, _, _, _)
SpanLoop(tokens, answer, i, k, best) ==
  LET len_p == Len(tokens)
      len_a == Len(answer)
      ground_ans == Strip(Join(answer))
  IN  IF i \notin StartRange(len_p, len_a) THEN best
      ELSE IF k > Len(Lengths(len_a)) THEN SpanLoop(tokens, answer, i + 1, 1, best)
      ELSE
        LET t_len == Lengths(len_a)[k] IN
        IF t_len = 0 \/ i + t_len > len_p
        THEN SpanLoop(tokens, answer, i, k + 1, best)
        ELSE IF /\ Overlaps(tokens, ground_ans, i, t_len)
                /\ RatLess(best.score, CandScore(tokens, ground_ans, i, t_len))
        THEN SpanLoop(tokens, answer, i, k + 1,
                      [idx |-> SpanOf(i, t_len),
                       score |-> CandScore(tokens, ground_ans, i, t_len)])
        ELSE SpanLoop(tokens, answer, i, k + 1, best)

\* lines 17-39
find_golden_span(tokens, answer) ==
  SpanLoop(tokens, answer, 0, 1, [idx |-> <<-1, -1>>, score |-> Zero]).idx

----------------------------------------------------------------------------
(* The calls of _sample_article: the inputs are drawn in SampleInit, the   *)
(* action applies the function.                                            *)

None == [status |-> "none", tokens |-> <<>>, flags |-> <<>>]
NoSpan == <<0, 0>>
NoSample == [status |-> "none"]
NoBatch == [status |-> "none"]

\* no sentence scores at hand
NoRanking == sent_scores = <<>> /\ sent_rank = <<>>

\* a path with no file
Absent == [kind |-> "absent"]

\* no file is read or written
NoFiles ==
  /\ raw_file = Absent /\ pre_file = Absent /\ is_train = FALSE
  /\ load_path = "none" /\ loaded_ids = <<>> /\ fallbacks = 0
  /\ regenerated = FALSE /\ aborted = FALSE

\* no dataset object: the calls above are of functions that read none
NoDataset ==
  /\ train_set = <<>> /\ dev_set = <<>> /\ test_set = <<>>
  /\ dev_split = Zero
  /\ elmo_vocab = <<>>
  /\ use_char_emb = FALSE
  /\ p_max_tokens_len = 0 /\ q_max_tokens_len = 0
  /\ p_token_max_len = 0 /\ q_token_max_len = 0
  /\ set_name = "" /\ batch_size = 0 /\ shuffle = FALSE
  /\ indices = <<>> /\ batch_start = 0
  /\ yielded = <<>> /\ restarted = FALSE

SampleTokens == {<<"S">>, <<"P">>, <<"a">>, <<"b">>}
SampleQuestions == {<<>>, << <<"a">>, <<"b">> >>}

\* tags: one distinct tag per position, so that a tag tells where its token
\* stood in the article
TagNames == <<"t1", "t2", "t3", "t4", "t5", "t6", "t7", "t8">>
FlagLists(n) == { [i \in 1..n |-> TagNames[i]] }

SampleInit ==
  /\ pc = "call"
  /\ article_tokens \in SeqsUpTo(SampleTokens, MaxArtLen)
  /\ article_flags \in FlagLists(Len(article_tokens))
  /\ question_tokens \in SampleQuestions
  /\ max_token_num \in 1..MaxBudget
  /\ sampled = None
  /\ answer_tokens = <<>>
  /\ span = NoSpan
  /\ sample = NoSample
  /\ NoDataset
  /\ NoFiles
  /\ NoRanking

SampleArticle ==
  /\ pc = "call"
  /\ \E r \in _sample_article(article_tokens, article_flags, question_tokens,
                              max_token_num) :
       sampled' = r
  /\ pc' = "sampled"
  /\ UNCHANGED <<fileVars, rankVars>>
  /\ UNCHANGED <<article_tokens, article_flags, question_tokens, max_token_num,
                 answer_tokens, span, sample, dataVars, genVars>>

SampleNext == SampleArticle

SampleSpec == SampleInit /\ [][SampleNext]_vars

----------------------------------------------------------------------------
(* The calls of find_golden_span: on an article as it is (FindGoldenSpan),  *)
(* and as _preprocess_raw calls it for one question of a training file, on *)
(* the sampled article (PreprocessQuestion).                               *)

SpanTokens == {<<"a">>, <<"b">>, <<"a", "b", "c">>, <<" ">>, <<"S">>}
AnswerTokens == {<<"a">>, <<"b">>, <<" ">>}

SpanInit ==
  /\ pc = "raw"
  /\ article_tokens \in SeqsUpTo(SpanTokens, MaxSpanArtLen)
  /\ article_flags \in FlagLists(Len(article_tokens))
  /\ question_tokens = << <<"a">> >>
  /\ answer_tokens \in SeqsUpTo(AnswerTokens, MaxAnsLen)
  /\ max_token_num = SpanBudget
  /\ sampled = None
  /\ span = NoSpan
  /\ sample = NoSample
  /\ NoDataset
  /\ NoFiles
  /\ NoRanking

FindGoldenSpan ==
  /\ pc = "raw"
  /\ span' = find_golden_span(article_tokens, answer_tokens)
  /\ pc' = "span"
  /\ UNCHANGED <<fileVars, rankVars>>
  /\ UNCHANGED <<article_tokens, article_flags, question_tokens, max_token_num,
                 sampled, answer_tokens, sample, dataVars, genVars>>

\* lines 231-271 with train=True: the sample of one question
BuildSample(r, answer) ==
  IF r.status # "ok" THEN [status |-> r.status]
  ELSE LET sp == find_golden_span(r.tokens, answer)
       IN  [status |-> "ok",
            article_tokens |-> r.tokens,
            article_flags |-> r.flags,
            article_tokens_len |-> Len(r.tokens),
            answer_tokens |-> answer,
            answer_token_start |-> sp[1],
            answer_token_end |-> sp[2]]

PreprocessQuestion ==
  /\ pc = "raw"
  /\ \E r \in _sample_article(article_tokens, article_flags, question_tokens,
                              max_token_num) :
       /\ sampled' = r
       /\ sample' = BuildSample(r, answer_tokens)
  /\ pc' = "sample"
  /\ UNCHANGED <<fileVars, rankVars>>
  /\ UNCHANGED <<article_tokens, article_flags, question_tokens, max_token_num,
                 answer_tokens, span, dataVars, genVars>>

SpanNext == FindGoldenSpan \/ PreprocessQuestion

SpanSpec == SpanInit /\ [][SpanNext]_vars

----------------------------------------------------------------------------
(* Vocab (vocab.py): a vocabulary is its list of tokens, the id of a token *)
(* its 0-based place in the list.                                          *)

PadToken == <<"<pad>">>
UnkToken == <<"<unk>">>

IdOf(vocab, token) == (CHOOSE i \in 1..Len(vocab) : vocab[i] = token) - 1

\* Vocab.get_id: the id of the token, the id of <unk> for an unseen token
get_id(vocab, token) ==
  IF \E i \in 1..Len(vocab) : vocab[i] = token
  THEN IdOf(vocab, token) ELSE IdOf(vocab, UnkToken)

\* lines 383-413: <pad> and <unk> are inserted in front of the token, the
\* character and the flag lists; a token or a character below its minimum
\* count ("c" here) is not in the vocabulary
token_vocab == <<PadToken, UnkToken, <<"a">>, <<"b", "c">>>>
char_vocab == <<PadToken, UnkToken, <<"a">>, <<"b">>>>
flag_vocab == <<PadToken, UnkToken, <<"n">>, <<"v">>>>

\* line 414: the contextual vocabulary is list(elmo_dict.keys()) as
\* get_elmo_vocab supplies it; nothing is inserted in front
ElmoVocabs ==
  { <<PadToken, UnkToken, <<"a">>, <<"c">>>>,
    <<UnkToken, <<"a">>, PadToken, <<"c">>>> }

----------------------------------------------------------------------------
(* The samples of the loaded files, before _convert_to_ids.                *)

RawSample(id, art, art_f, q, q_f, labeled, ans) ==
  [article_id |-> id,
   article_tokens |-> art, article_flags |-> art_f,
   article_tokens_len |-> Len(art),
   question_tokens |-> q, question_flags |-> q_f,
   question_tokens_len |-> Len(q),
   has_answer_tokens |-> labeled,
   answer_tokens |-> ans,
   answer_token_start |-> IF labeled THEN find_golden_span(art, ans)[1] ELSE 0,
   answer_token_end |-> IF labeled THEN find_golden_span(art, ans)[2] ELSE 0]

TrainPool ==
  { RawSample("A1", << <<"a">>, <<"b", "c">> >>, << <<"n">>, <<"v">> >>,
              << <<"a">> >>, << <<"n">> >>, TRUE, << <<"a">> >>),
    RawSample("A1", << <<"a">>, <<"b", "c">> >>, << <<"n">>, <<"v">> >>,
              << <<"b">>, <<"b", "c">>, <<"c">> >>, << <<"n">>, <<"v">>, <<"n">> >>,
              TRUE, <<>>),
    RawSample("A2", << <<"c">>, <<"a">>, <<"b">> >>, << <<"v">>, <<"n">>, <<"n">> >>,
              << <<"c">>, <<"a">> >>, << <<"v">>, <<"n">> >>, TRUE, << <<"b">> >>),
    RawSample("A3", << <<"a">> >>, << <<"n">> >>,
              << <<"b", "c">> >>, << <<"v">> >>, TRUE, << <<"c">> >>) }

TestPool ==
  { RawSample("T1", << <<"b">>, <<"c">>, <<"a">>, <<"b">> >>,
              << <<"n">>, <<"v">>, <<"n">>, <<"v">> >>,
              << <<"b", "c">> >>, << <<"v">> >>, FALSE, <<>>) }

\* [f(x) for x in seq]
Map(f(_), seq) == [i \in 1..Len(seq) |-> f(seq[i])]

\* max(seq) and min of two numbers
MaxOf(seq) == CHOOSE m \in {seq[i] : i \in 1..Len(seq)} : \A i \in 1..Len(seq) : seq[i] <= m

\* lines 563-602: _convert_to_ids for one sample
ConvertSample(s, elmo, with_chars) ==
  LET tid(t) == get_id(token_vocab, t)
      fid(f) == get_id(flag_vocab, f)
      eid(t) == get_id(elmo, t)
      cids(t) == [i \in 1..Len(t) |-> get_id(char_vocab, <<t[i]>>)]
  IN  [article_id |-> s.article_id,
       article_tokens |-> s.article_tokens,
       article_flags |-> s.article_flags,
       article_tokens_len |-> s.article_tokens_len,
       question_tokens |-> s.question_tokens,
       question_flags |-> s.question_flags,
       question_tokens_len |-> s.question_tokens_len,
       has_answer_tokens |-> s.has_answer_tokens,
       answer_tokens |-> s.answer_tokens,
       answer_token_start |-> s.answer_token_start,
       answer_token_end |-> s.answer_token_end,
       question_char_ids |-> IF with_chars THEN Map(cids, s.question_tokens) ELSE <<>>,
       article_char_ids |-> IF with_chars THEN Map(cids, s.article_tokens) ELSE <<>>,
       question_token_ids |-> Map(tid, s.question_tokens),
       article_token_ids |-> Map(tid, s.article_tokens),
       question_flag_ids |-> Map(fid, s.question_flags),
       article_flag_ids |-> Map(fid, s.article_flags),
       question_elmo_ids |-> Map(eid, s.question_tokens),
       article_elmo_ids |-> Map(eid, s.article_tokens)]

----------------------------------------------------------------------------
(* _dynamic_padding, _gen_hand_features, _one_mini_batch *)

\* [x] * n: the empty list for n <= 0
Repeat(x, n) == [i \in 1..n |-> x]

\* (ids + [pad_id] * (pad_len - len(ids)))[:pad_len]
PadRow(ids, pad_id, pad_len) ==
  Take(ids \o Repeat(pad_id, pad_len - Len(ids)), pad_len)

\* line 493, 494, 496
pad_id_t == get_id(token_vocab, PadToken)
pad_id_f == get_id(flag_vocab, PadToken)
pad_id_c == get_id(char_vocab, PadToken)
\* line 495: self.flag_vocab.get_id(self.elmo_vocab.pad_token)
pad_id_e == get_id(flag_vocab, PadToken)

RECURSIVE Concat(_)
Concat(seqs) == IF seqs = <<>> THEN <<>> ELSE Head(seqs) \o Concat(Tail(seqs))

\* lines 519 and 523: the character counts of the tokens of every sample,
\* filled with 0 up to the pad length
CharLens(char_ids, pad_len) ==
  Concat([k \in 1..Len(char_ids) |->
            [i \in 1..Len(char_ids[k]) |-> Len(char_ids[k][i])]
              \o Repeat(0, pad_len - Len(char_ids[k]))])

\* lines 528-536: the rows of one sample's tokens padded to token_len, then
\* `extra` rows of pad ids added, then cut to `rows`
PadChars(tokens, token_len, extra, rows) ==
  Take([i \in 1..Len(tokens) |-> PadRow(tokens[i], pad_id_c, token_len)]
         \o Repeat(Repeat(pad_id_c, token_len), extra),
       rows)

InQuestionSubstring(token, q_tokens) == IsSubstring(token, Join(q_tokens))

\* line 282: token in sample['question_tokens']
InQuestion(token, q_tokens) == \E j \in 1..Len(q_tokens) : q_tokens[j] = token

\* lines 280-283 for one sample: [[0.0]] * article_pad_len, then [1.0] at the
\* place of every article token that is in the question (the pad length is
\* never below the article's length, so every place exists)
HandFeature(s, pad_len) ==
  [idx \in 1..pad_len |->
     IF idx <= Len(s.article_tokens) /\ InQuestion(s.article_tokens[idx], s.question_tokens)
     THEN <<1>> ELSE <<0>>]

StartOfStored(s) == s.answer_token_start

\* lines 476-484: the label of one sample
StartOf(s) == IF s.has_answer_tokens /\ Len(s.answer_tokens) # 0
              THEN s.answer_token_start ELSE 0
EndOf(s) == IF s.has_answer_tokens /\ Len(s.answer_tokens) # 0
            THEN s.answer_token_end ELSE 0

\* lines 418-486 with _dynamic_padding (488-538) and _gen_hand_features (277-285)
_one_mini_batch(data, idxs, p_max, q_max, p_tok_max, q_tok_max, with_chars) ==
  LET raw == [k \in 1..Len(idxs) |-> data[idxs[k] + 1]]
      n == Len(raw)
      art_len == [k \in 1..n |-> raw[k].article_tokens_len]
      q_len == [k \in 1..n |-> raw[k].question_tokens_len]
      pad_p_len == Min(p_max, MaxOf(art_len))
      pad_q_len == Min(q_max, MaxOf(q_len))
      art_chars == [k \in 1..n |-> raw[k].article_char_ids]
      q_chars == [k \in 1..n |-> raw[k].question_char_ids]
      article_c_len == IF with_chars THEN CharLens(art_chars, pad_p_len) ELSE <<>>
      question_c_len == IF with_chars THEN CharLens(q_chars, pad_q_len) ELSE <<>>
      pad_p_token_len == IF with_chars THEN Min(p_tok_max, MaxOf(article_c_len))
                         ELSE p_tok_max
      pad_q_token_len == IF with_chars THEN Min(q_tok_max, MaxOf(question_c_len))
                         ELSE q_tok_max
  IN  [status |-> "ok",
       raw_data |-> raw,
       article_token_ids |->
         [k \in 1..n |-> PadRow(raw[k].article_token_ids, pad_id_t, pad_p_len)],
       question_token_ids |->
         [k \in 1..n |-> PadRow(raw[k].question_token_ids, pad_id_t, pad_q_len)],
       article_flag_ids |->
         [k \in 1..n |-> PadRow(raw[k].article_flag_ids, pad_id_f, pad_p_len)],
       question_flag_ids |->
         [k \in 1..n |-> PadRow(raw[k].question_flag_ids, pad_id_f, pad_q_len)],
       article_elmo_ids |->
         [k \in 1..n |-> PadRow(raw[k].article_elmo_ids, pad_id_e, pad_p_len)],
       question_elmo_ids |->
         [k \in 1..n |-> PadRow(raw[k].question_elmo_ids, pad_id_e, pad_q_len)],
       article_tokens_len |-> art_len,
       question_tokens_len |-> q_len,
       article_c_len |-> article_c_len,
       question_c_len |-> question_c_len,
       article_char_ids |->
         IF with_chars
         THEN [k \in 1..n |-> PadChars(art_chars[k], pad_p_token_len,
                                       pad_p_len - Len(art_chars[k]), pad_p_len)]
         ELSE <<>>,
       question_char_ids |->
         IF with_chars
         THEN [k \in 1..n |-> PadChars(q_chars[k], pad_q_token_len,
                                       pad_p_len - Len(q_chars[k]), pad_q_len)]
         ELSE <<>>,
       article_pad_len |-> pad_p_len,
       question_pad_len |-> pad_q_len,
       article_CL |-> IF with_chars THEN pad_p_token_len ELSE 0,
       question_CL |-> IF with_chars THEN pad_q_token_len ELSE 0,
       start_id |-> [k \in 1..n |-> StartOf(raw[k])],
       end_id |-> [k \in 1..n |-> EndOf(raw[k])],
       wiqB |-> [k \in 1..n |-> HandFeature(raw[k], pad_p_len)]]

----------------------------------------------------------------------------
(* The dataset object after __init__ and the generator gen_mini_batches.   *)

\* every order of the elements of a finite set
Orders(S) ==
  {f \in [1..Cardinality(S) -> S] : \A i, j \in 1..Cardinality(S) : i # j => f[i] # f[j]}

\* the dev_split argument of __init__ as a quotient: the default 0.1, and 0.5
DevSplits == {Rat(1, 10), Rat(1, 2)}

\* line 90: total_article_ids[:int(len(total_article_ids) * dev_split)]
DevIds(order, split) ==
  {order[i] : i \in 1..((Len(order) * split.n) \div split.d)}

DropNone(seq, ids) == seq

\* lines 91-92
Keep(seq, ids) == SelectSeq(seq, LAMBDA x : x.article_id \in ids)
Drop(seq, ids) == SelectSeq(seq, LAMBDA x : x.article_id \notin ids)

\* lines 79-85: the maxima over train_set + test_set before the split
TokenLens(tokens) == [i \in 1..Len(tokens) |-> Len(tokens[i])]
MaxArticleLen(all) == MaxOf([k \in 1..Len(all) |-> all[k].article_tokens_len])
MaxQuestionLen(all) == MaxOf([k \in 1..Len(all) |-> all[k].question_tokens_len])
MaxArticleTokenLen(all) ==
  MaxOf([k \in 1..Len(all) |-> MaxOf(TokenLens(all[k].article_tokens))])
MaxQuestionTokenLen(all) ==
  MaxOf([k \in 1..Len(all) |-> MaxOf(TokenLens(all[k].question_tokens))])

NoCall ==
  /\ article_tokens = <<>> /\ article_flags = <<>> /\ question_tokens = <<>>
  /\ max_token_num = 0 /\ sampled = None /\ answer_tokens = <<>>
  /\ span = NoSpan /\ sample = NoSample

\* the loaded samples: one per (article, question) pair, in any order
Loaded(pool, n) ==
  {l \in SeqsUpTo(pool, n) : \A i, j \in 1..Len(l) : i # j => l[i] # l[j]}

\* lines 47-85: the object after loading, conversion to ids and the maxima,
\* for every choice of loaded samples, contextual vocabulary, dev_split and
\* use_char_emb; line 86 is next
BatchInit ==
  /\ pc = "constructing"
  /\ NoCall
  /\ NoFiles
  /\ NoRanking
  /\ use_char_emb \in BOOLEAN
  /\ elmo_vocab \in ElmoVocabs
  /\ dev_split \in DevSplits
  /\ \E loaded \in Loaded(TrainPool, MaxSet), tests \in Loaded(TestPool, 1) :
       /\ Len(loaded) + Len(tests) > 0    \* else max([]) at line 79 raises
       /\ LET conv(x) == ConvertSample(x, elmo_vocab, use_char_emb)
              train == Map(conv, loaded)
              test == Map(conv, tests)
          IN  /\ train_set = train
              /\ dev_set = <<>>
              /\ test_set = test
              /\ p_max_tokens_len = MaxArticleLen(train \o test)
              /\ q_max_tokens_len = MaxQuestionLen(train \o test)
              /\ p_token_max_len = MaxArticleTokenLen(train \o test)
              /\ q_token_max_len = MaxQuestionTokenLen(train \o test)
  /\ set_name = "" /\ batch_size = 0 /\ shuffle = FALSE
  /\ indices = <<>> /\ batch_start = 0
  /\ yielded = <<>> /\ restarted = FALSE

\* lines 86-92: the split of train and dev by article id, for every outcome
\* of the seeded shuffle; construction ends
SplitDev ==
  /\ pc = "constructing"
  /\ \E order \in Orders({train_set[k].article_id : k \in 1..Len(train_set)}) :
       LET ids == DevIds(order, dev_split)
       IN  /\ dev_set' = Keep(train_set, ids)
           /\ train_set' = Drop(train_set, ids)
  /\ pc' = "idle"
  /\ UNCHANGED <<callVars, genVars, fileVars, rankVars, test_set, dev_split, elmo_vocab,
                 use_char_emb, p_max_tokens_len, q_max_tokens_len,
                 p_token_max_len, q_token_max_len>>

SetNames == {"train", "dev", "test"}

\* lines 615-620
DataOf(name) ==
  CASE name = "train" -> train_set
    [] name = "dev" -> dev_set
    [] name = "test" -> test_set

\* np.arange(data_size), 0-based, and what np.random.shuffle can make of it
Arange(n) == [i \in 1..n |-> i - 1]
Shuffles(n) == Orders(0..(n - 1))

BatchIndicesOverlap(idx, start, size) == PySlice(idx, Max(start - 1, 0), start + size)

\* line 628: indices[batch_start: batch_start + batch_size]
BatchIndices(idx, start, size) == PySlice(idx, start, start + size)

\* lines 604-626: the call, up to the loop; an unknown name raises
\* NotImplementedError (line 622)
GenMiniBatches ==
  /\ pc = "idle" \/ (pc = "done" /\ ~restarted)   \* one further epoch is followed
  /\ restarted' = (restarted \/ pc = "done")
  /\ \E name \in SetNames \cup {"valid"}, size \in 1..MaxBatch, sh \in BOOLEAN :
       /\ set_name' = name
       /\ batch_size' = size
       /\ shuffle' = sh
       /\ IF name \in SetNames
          THEN /\ indices' \in (IF sh THEN Shuffles(Len(DataOf(name)))
                                ELSE {Arange(Len(DataOf(name)))})
               /\ pc' = "running"
          ELSE /\ indices' = <<>>
               /\ pc' = "NotImplementedError"
  /\ batch_start' = 0
  /\ yielded' = <<>>
  /\ UNCHANGED <<fileVars, rankVars>>
  /\ UNCHANGED <<callVars, dataVars>>

\* lines 627-629: one turn of the loop, up to the yield; what it yields is
\* `batch` below, _one_mini_batch of the indices appended here
YieldBatch ==
  /\ pc = "running"
  /\ batch_start < Len(DataOf(set_name))
  /\ yielded' = Append(yielded, BatchIndices(indices, batch_start, batch_size))
  /\ batch_start' = batch_start + batch_size
  /\ UNCHANGED <<fileVars, rankVars>>
  /\ UNCHANGED <<pc, callVars, dataVars, set_name, batch_size, shuffle, indices,
                 restarted>>

\* line 627: the loop, and with it the generator, ends
EndEpoch ==
  /\ pc = "running"
  /\ batch_start >= Len(DataOf(set_name))
  /\ pc' = "done"
  /\ UNCHANGED <<fileVars, rankVars>>
  /\ UNCHANGED <<callVars, dataVars, genVars>>

\* line 629: the batch yielded last, self._one_mini_batch(data, batch_indices)
batch ==
  IF pc \in {"running", "done"} /\ Len(yielded) > 0
  THEN _one_mini_batch(DataOf(set_name), yielded[Len(yielded)],
                       p_max_tokens_len, q_max_tokens_len,
                       p_token_max_len, q_token_max_len, use_char_emb)
  ELSE NoBatch

BatchNext == SplitDev \/ GenMiniBatches \/ YieldBatch \/ EndEpoch

BatchSpec == BatchInit /\ [][BatchNext]_vars

\* a consumer that iterates over the generator asks for the next batch until
\* the generator ends
BatchFairSpec == BatchSpec /\ WF_vars(YieldBatch) /\ WF_vars(EndEpoch)

----------------------------------------------------------------------------
(* _load_dataset with its two loaders, for one configured file.  A raw     *)
(* record is its article id and what its processing meets; the samples of  *)
(* a record are modelled above (_sample_article, find_golden_span).        *)

\* what is at a path: no file, a raw file that is not JSON, a raw JSON list
\* of records, a preprocessed file of one JSON row per line
Malformed == [kind |-> "malformed"]
Json(records) == [kind |-> "json", records |-> records]
Lines(rows) == [kind |-> "lines", rows |-> rows]

\* a record: complete with one question; without its 'questions' key; with an
\* article over the budget that _sample_article cuts into one sentence
RecordKinds == {"ok", "no_questions", "one_sentence"}
ArticleIds == <<"R1", "R2", "R3", "R4">>
RecordLists ==
  {[i \in 1..Len(ks) |-> [article_id |-> ArticleIds[i], kind |-> ks[i]]]
     : ks \in SeqsUpTo(RecordKinds, MaxRecords)}
RawFiles == {Absent, Malformed} \cup {Json(recs) : recs \in RecordLists}

LoadReturned(ids) == [status |-> "ok", ids |-> ids]
LoadRaised(what) == [status |-> what, ids |-> <<>>]

\* lines 287-339: open(data_path) raises FileNotFoundError for a missing file;
\* else one sample per question of every row
_load_from_preprocessed(file) ==
  IF file.kind = "absent" THEN LoadRaised("FileNotFoundError")
  ELSE LoadReturned(file.rows)

\* lines 222-273 for one record: the exception its processing raises, if any
FatalOf(record) ==
  CASE record.kind = "no_questions" -> "KeyError"       \* line 222
    [] record.kind = "one_sentence" -> "IndexError"     \* line 231 -> line 168
    [] OTHER -> "none"

\* the number of records processed before the first that raises
RECURSIVE Completed(_)
Completed(records) ==
  IF records = <<>> \/ FatalOf(Head(records)) # "none" THEN 0
  ELSE 1 + Completed(Tail(records))

WriteRowsNowhere(before, rows) == before

\* lines 206 and 274: open(preprocessed_path, 'w') and the fo.write calls, the
\* file closed (and flushed) when the with block is left either way
WriteRows(before, rows) == Lines(rows)

\* lines 191-275: the dataset or the exception, and the preprocessed file left
_preprocess_raw(raw, pre) ==
  IF raw.kind = "absent"          \* line 205 raises before line 206 opens
  THEN [result |-> LoadRaised("FileNotFoundError"), pre |-> pre]
  ELSE IF raw.kind = "malformed"  \* line 207 raises, the new file is empty
  THEN [result |-> LoadRaised("JSONDecodeError"), pre |-> WriteRows(pre, <<>>)]
  ELSE LET n == Completed(raw.records)
           ids == [i \in 1..n |-> raw.records[i].article_id]
       IN  IF n = Len(raw.records)
           THEN [result |-> LoadReturned(ids), pre |-> WriteRows(pre, ids)]
           ELSE [result |-> LoadRaised(FatalOf(raw.records[n + 1])),
                 pre |-> WriteRows(pre, ids)]

\* the files before the first run: any raw file; no preprocessed file, or
\* the one an earlier complete preprocessing of this raw file wrote
LoadInit ==
  /\ pc = "load"
  /\ NoCall
  /\ NoDataset
  /\ NoRanking
  /\ raw_file \in RawFiles
  /\ pre_file \in {Absent} \cup
       (IF _preprocess_raw(raw_file, Absent).result.status = "ok"
        THEN {_preprocess_raw(raw_file, Absent).pre} ELSE {})
  /\ is_train \in BOOLEAN
  /\ load_path = "none" /\ loaded_ids = <<>> /\ fallbacks = 0
  /\ regenerated = FALSE /\ aborted = FALSE

\* lines 99-106 (train) and 108-115 (test): one turn of the loop in one run
LoadDataset ==
  /\ pc = "load"
  /\ LET try == _load_from_preprocessed(pre_file)
     IN  IF try.status = "ok"
         THEN /\ load_path' = "preprocessed"
              /\ loaded_ids' = try.ids
              /\ fallbacks' = 0
              /\ UNCHANGED <<pre_file, regenerated, aborted>>
         ELSE LET raw == _preprocess_raw(raw_file, pre_file)
              IN  /\ fallbacks' = 1
                  /\ pre_file' = raw.pre
                  /\ loaded_ids' = raw.result.ids
                  /\ load_path' = IF raw.result.status = "ok" THEN "raw"
                                  ELSE raw.result.status
                  /\ regenerated' = (regenerated \/ raw.result.status = "ok")
                  /\ aborted' = (aborted \/ raw.result.status # "ok")
  /\ UNCHANGED <<pc, callVars, dataVars, genVars, rankVars, raw_file, is_train>>

LoadNext == LoadDataset

LoadSpec == LoadInit /\ [][LoadNext]_vars

----------------------------------------------------------------------------
(* The score propagation of _sample_article (lines 147-164) on its own:    *)
(* the sentence scores are the input, s_rank the result.                   *)

\* r_scores of RougeL are quotients in [0, 1]
ScoreValues == {Zero, Rat(1, 2), Rat(1, 1)}

RankInit ==
  /\ pc = "scored"
  /\ NoCall
  /\ NoDataset
  /\ NoFiles
  /\ sent_scores \in SeqsUpTo(ScoreValues, MaxSentences)
  /\ sent_rank = <<>>

\* lines 147-164, for every order np.argsort may give to equal scores
SpreadScores ==
  /\ pc = "scored"
  /\ \E a \in argsort(sent_scores) :
       sent_rank' = SpreadLoop(sent_scores, Reverse(a), 0,
                               [k \in 1..Len(sent_scores) |-> Zero])
  /\ pc' = "ranked"
  /\ UNCHANGED <<callVars, dataVars, genVars, fileVars, sent_scores>>

RankNext == SpreadScores

RankSpec == RankInit /\ [][RankNext]_vars

----------------------------------------------------------------------------
(* Properties of _sample_article. *)

IsPrefix(p, seq) == Len(p) <= Len(seq) /\ SubSeq(seq, 1, Len(p)) = p

\* the bag of (token, tag) pairs of two parallel lists
PairBag(tokens, flags) ==
  LET n == Min(Len(tokens), Len(flags))
      pairs == {<<tokens[i], flags[i]>> : i \in 1..n}
  IN  [p \in pairs |-> Cardinality({i \in 1..n : <<tokens[i], flags[i]>> = p})]

\* The sentences as the specification describes them: a sentence ends at a
\* paragraph separator, at a full-width period, or with the article.
SentenceEnds(tokens) ==
  {i \in 1..Len(tokens) : tokens[i] \in {<<"S">>, <<"P">>}} \cup
  (IF tokens = <<>> THEN {} ELSE {Len(tokens)})
NumSentences(tokens) == Cardinality(SentenceEnds(tokens))
NthEnd(tokens, k) ==
  CHOOSE e \in SentenceEnds(tokens) :
    Cardinality({x \in SentenceEnds(tokens) : x <= e}) = k
NthSentence(tokens, k) ==
  SubSeq(tokens, IF k = 1 THEN 1 ELSE NthEnd(tokens, k - 1) + 1, NthEnd(tokens, k))
AnchorBlock(tokens) ==
  NthSentence(tokens, 1) \o NthSentence(tokens, 2)
    \o NthSentence(tokens, NumSentences(tokens))

Called == pc = "sampled"
Long == Len(article_tokens) > max_token_num

\* what every returned pair satisfies: equal lengths, within the budget, and
\* every output (token, tag) pair is a pair of the input
PairWellFormed ==
  /\ Len(sampled.tokens) = Len(sampled.flags)
  /\ Len(sampled.tokens) <= max_token_num
  /\ \A k \in 1..Len(sampled.tokens) :
       \E j \in 1..Len(article_tokens) :
         /\ article_tokens[j] = sampled.tokens[k]
         /\ article_flags[j] = sampled.flags[k]

\* C1: for every article, question and budget, _sample_article returns a
\* (tokens, tags) pair of equal lengths, at most the budget long, whose tag at
\* each position is the tag that accompanied that token in the input.
C1_ReturnsWellFormedPair ==
  Called => (sampled.status = "ok" /\ PairWellFormed)

\* Every pair that is returned is well formed: the only way the statement of
\* C1 fails is that no pair is returned.
ReturnedPairWellFormed ==
  (Called /\ sampled.status = "ok") => PairWellFormed

\* C2: an article whose token count is at most the budget is returned
\* unchanged, tokens and tags.
C2_ShortUnchanged ==
  (Called /\ ~Long) =>
     sampled = Returned(article_tokens, article_flags)

\* C2 witness: a call with an article of several sentences that fits the budget
C2_Witness ==
  /\ Called /\ ~Long
  /\ NumSentences(article_tokens) >= 3
  /\ Len(article_tokens) = max_token_num
  /\ sampled.tokens = article_tokens

\* C3: for an article longer than the budget, the returned tokens are copies of
\* original positions, and no original position is used more than once: the
\* bag of returned (token, tag) pairs is contained in the bag of the article's.
C3_SubsetNoRepeat ==
  (Called /\ Long /\ sampled.status = "ok") =>
     PairBag(sampled.tokens, sampled.flags)
       \sqsubseteq PairBag(article_tokens, article_flags)

\* C3 witness: a returned sample of a long article that is a true reordering:
\* the last sentence stands before a middle sentence
C3_Witness ==
  /\ Called /\ Long /\ sampled.status = "ok"
  /\ NumSentences(article_tokens) >= 4
  /\ Len(sampled.tokens) > Len(AnchorBlock(article_tokens))
  /\ ~IsPrefix(sampled.tokens, article_tokens)

\* C4 as stated: for an article longer than the budget the output begins with
\* the complete first, second and last sentence, whatever their lengths.
C4_AnchorsComplete ==
  (Called /\ Long /\ sampled.status = "ok") =>
     IsPrefix(AnchorBlock(article_tokens), sampled.tokens)

\* C4 amended: the output of a long article begins with the first, the second
\* and the last sentence as far as the budget reaches: with the first
\* max_token_num tokens of their concatenation, hence with all three complete
\* when they fit the budget together; an article that has one sentence only
\* raises IndexError instead of returning.
C4_AnchorsUpToBudget ==
  (Called /\ Long) =>
     IF NumSentences(article_tokens) < 2
     THEN sampled.status = "IndexError"
     ELSE /\ sampled.status = "ok"
          /\ IsPrefix(Take(AnchorBlock(article_tokens), max_token_num),
                      sampled.tokens)
          /\ Len(AnchorBlock(article_tokens)) <= max_token_num
                => IsPrefix(AnchorBlock(article_tokens), sampled.tokens)

\* C4 witness: a long article whose three anchor sentences fit the budget and
\* open the output, followed by a selected sentence
C4_Witness ==
  /\ Called /\ Long /\ sampled.status = "ok"
  /\ NumSentences(article_tokens) >= 4
  /\ Len(AnchorBlock(article_tokens)) < max_token_num
  /\ IsPrefix(AnchorBlock(article_tokens), sampled.tokens)
  /\ Len(sampled.tokens) = max_token_num

----------------------------------------------------------------------------
(* Properties of find_golden_span. *)

Located == pc = "span"
Sampled == pc = "sample" /\ sample.status = "ok"

InRange(start, end, n) ==
  \/ start = -1 /\ end = -1
  \/ 0 <= start /\ start <= end /\ end < n

\* C5: find_golden_span returns [-1, -1] or [start, end] with
\* 0 <= start <= end < len(article_tokens); so every labeled sample of raw
\* preprocessing has such a span within its (possibly truncated) article.
C5_SpanInRange ==
  /\ Located => InRange(span[1], span[2], Len(article_tokens))
  /\ Sampled =>
       /\ sample.article_tokens_len = Len(sample.article_tokens)
       /\ InRange(sample.answer_token_start, sample.answer_token_end,
                  sample.article_tokens_len)

\* C5 witness: a sample whose article was truncated and whose answer is located
\* at the last token of the truncated article
C5_Witness ==
  /\ Sampled
  /\ sample.article_tokens_len < Len(article_tokens)
  /\ sample.answer_token_start >= 0
  /\ sample.answer_token_end = sample.article_tokens_len - 1

\* The candidates as the specification describes them: (i, L) for every start
\* position i of the article and every L of len(answer) - 1, len(answer),
\* len(answer) + 1 with L > 0, i + L <= len(article) and overlap above 0.4.
CandString(tokens, i, L) == Strip(Join(SubSeq(tokens, i + 1, i + L)))
OverlapAboveThreshold(cand, ans) ==
  LET s1 == CharSet(cand)
      s2 == CharSet(ans)
      larger == Max(Cardinality(s1), Cardinality(s2))
  IN  larger > 0 /\ 10 * Cardinality(s1 \cap s2) > 4 * larger
AllCandidates(tokens, answer) ==
  {c \in (0..(Len(tokens) - 1)) \X {Len(answer) - 1, Len(answer), Len(answer) + 1} :
     /\ c[2] > 0
     /\ c[1] + c[2] <= Len(tokens)
     /\ OverlapAboveThreshold(CandString(tokens, c[1], c[2]), Strip(Join(answer)))}

\* c is at least as good as d: a higher score, or the same score and an
\* earlier start, or the same score and start and not longer
Beats(tokens, answer, c, d) ==
  LET sc == inst_score(CandString(tokens, c[1], c[2]), Strip(Join(answer)))
      sd == inst_score(CandString(tokens, d[1], d[2]), Strip(Join(answer)))
  IN  \/ RatLess(sd, sc)
      \/ sc = sd /\ c[1] < d[1]
      \/ sc = sd /\ c[1] = d[1] /\ c[2] <= d[2]

BestOfAll(tokens, answer) ==
  LET C == AllCandidates(tokens, answer) IN
  IF C = {} THEN <<-1, -1>>
  ELSE LET c == CHOOSE c \in C : \A d \in C : Beats(tokens, answer, c, d)
       IN  <<c[1], c[1] + c[2] - 1>>

\* C6: find_golden_span returns the span of the highest-scoring candidate among
\* all candidates (i, L), i any start position of the article; of several
\* with the highest score the one with the earliest start, then the smallest
\* length.
C6_BestOfAllCandidates ==
  Located => span = BestOfAll(article_tokens, answer_tokens)

\* The same with the start positions the loop at line 25 visits,
\* 0 .. len(article) - len(answer): this much the code does.
BestOfVisited(tokens, answer) ==
  LET C == {c \in AllCandidates(tokens, answer) :
              c[1] <= Len(tokens) - Len(answer)} IN
  IF C = {} THEN <<-1, -1>>
  ELSE LET c == CHOOSE c \in C : \A d \in C : Beats(tokens, answer, c, d)
       IN  <<c[1], c[1] + c[2] - 1>>

VisitedBestReturned ==
  Located => span = BestOfVisited(article_tokens, answer_tokens)

\* C7: when no candidate span of the article overlaps the answer's characters
\* above 0.4, find_golden_span returns [-1, -1] (and raises nothing).
C7_NoCandidateNoSpan ==
  (Located /\ AllCandidates(article_tokens, answer_tokens) = {}) =>
     span = <<-1, -1>>

\* C7 witness: an answer that shares a character with the article, every
\* candidate at or below the threshold, and [-1, -1] returned
C7_Witness ==
  /\ Located
  /\ AllCandidates(article_tokens, answer_tokens) = {}
  /\ (CharSet(Join(article_tokens)) \cap CharSet(Strip(Join(answer_tokens)))) # {}
  /\ span = <<-1, -1>>

----------------------------------------------------------------------------
(* Properties of the batches. *)

HasBatch == batch.status = "ok"
BatchLen == Len(batch.raw_data)
AllSamples == train_set \o dev_set \o test_set

\* the longest article and question of the whole dataset and of the batch
GlobalMaxArticle == MaxOf([k \in 1..Len(AllSamples) |-> Len(AllSamples[k].article_tokens)])
GlobalMaxQuestion == MaxOf([k \in 1..Len(AllSamples) |-> Len(AllSamples[k].question_tokens)])
BatchMaxArticle == MaxOf([k \in 1..BatchLen |-> Len(batch.raw_data[k].article_tokens)])
BatchMaxQuestion == MaxOf([k \in 1..BatchLen |-> Len(batch.raw_data[k].question_tokens)])

\* row is ids followed by pad up to the length len
PaddedTo(row, ids, pad, len) ==
  /\ Len(row) = len
  /\ IsPrefix(ids, row)
  /\ \A i \in (Len(ids) + 1)..Len(row) : row[i] = pad

PadLensRight ==
  /\ batch.article_pad_len = Min(GlobalMaxArticle, BatchMaxArticle)
  /\ batch.question_pad_len = Min(GlobalMaxQuestion, BatchMaxQuestion)

TokenAndFlagRowsPadded ==
  \A k \in 1..BatchLen :
    LET s == batch.raw_data[k] IN
    /\ PaddedTo(batch.article_token_ids[k], s.article_token_ids,
                IdOf(token_vocab, PadToken), batch.article_pad_len)
    /\ PaddedTo(batch.question_token_ids[k], s.question_token_ids,
                IdOf(token_vocab, PadToken), batch.question_pad_len)
    /\ PaddedTo(batch.article_flag_ids[k], s.article_flag_ids,
                IdOf(flag_vocab, PadToken), batch.article_pad_len)
    /\ PaddedTo(batch.question_flag_ids[k], s.question_flag_ids,
                IdOf(flag_vocab, PadToken), batch.question_pad_len)

ContextualRowsPaddedWith(pad) ==
  \A k \in 1..BatchLen :
    LET s == batch.raw_data[k] IN
    /\ PaddedTo(batch.article_elmo_ids[k], s.article_elmo_ids, pad,
                batch.article_pad_len)
    /\ PaddedTo(batch.question_elmo_ids[k], s.question_elmo_ids, pad,
                batch.question_pad_len)

\* C8: in every batch the pad lengths are min(global maximum, longest of the
\* batch); every token, flag and contextual row has exactly the pad length,
\* starts with the sample's own ids and holds in the remaining places the pad
\* id of its own vocabulary.
C8_RowsPaddedWithOwnPad ==
  HasBatch =>
    /\ PadLensRight
    /\ TokenAndFlagRowsPadded
    /\ ContextualRowsPaddedWith(IdOf(elmo_vocab, PadToken))

\* What the code does: all of C8, but the contextual rows are filled with the
\* id the flag vocabulary gives to <pad>.
PaddedButContextualPadOfFlagVocab ==
  HasBatch =>
    /\ PadLensRight
    /\ TokenAndFlagRowsPadded
    /\ ContextualRowsPaddedWith(IdOf(flag_vocab, PadToken))

\* every sample of the epoch's split, by its index, in order of yielding
YieldedIndices == Concat(yielded)
EpochData == DataOf(set_name)
IsPermutation(idx, n) ==
  Len(idx) = n /\ {idx[i] : i \in 1..n} = 0..(n - 1)

\* the batches yielded so far are the consecutive full chunks of an order of
\* the whole split, the last one possibly shorter but never empty, and the
\* batch yielded last holds the samples of its indices
EpochSoFar ==
  pc \in {"running", "done"} =>
    /\ IsPermutation(indices, Len(EpochData))
    /\ ~shuffle => indices = Arange(Len(EpochData))
    /\ IsPrefix(YieldedIndices, indices)
    /\ \A k \in 1..Len(yielded) :
         /\ Len(yielded[k]) >= 1 /\ Len(yielded[k]) <= batch_size
         /\ k < Len(yielded) => Len(yielded[k]) = batch_size
    /\ (Len(yielded) > 0 /\ Len(yielded[Len(yielded)]) < batch_size)
         => YieldedIndices = indices
    /\ Len(yielded) > 0 =>
         /\ HasBatch
         /\ batch.raw_data = [k \in 1..Len(yielded[Len(yielded)]) |->
                                EpochData[yielded[Len(yielded)][k] + 1]]
    /\ pc = "done" => YieldedIndices = indices

\* C9: for a known split and batch_size >= 1, gen_mini_batches yields finitely
\* many batches and ends; every sample of the split is in exactly one batch of
\* the epoch; every batch but the last holds batch_size samples, the last
\* between 1 and batch_size; without shuffling the samples come in dataset
\* order; a later call yields a complete epoch again.
C9_EpochComplete ==
  /\ []EpochSoFar
  /\ (pc = "running") ~> (pc = "done")

\* C9 witness: a second epoch that ended after a full and a shorter batch
C9_Witness ==
  /\ pc = "done" /\ restarted
  /\ Len(yielded) = 2
  /\ Len(yielded[1]) = 2 /\ Len(yielded[2]) = 1
  /\ shuffle /\ indices # Arange(Len(EpochData))

\* C10: in every batch, wiqB of every sample has article_pad_len entries; the
\* entry of an article token is 1.0 exactly when the token equals some question
\* token of the sample, and every entry at a padding position is 0.0.
C10_WordInQuestion ==
  HasBatch =>
    \A k \in 1..BatchLen :
      LET s == batch.raw_data[k]
          w == batch.wiqB[k]
      IN  /\ Len(w) = batch.article_pad_len
          /\ \A idx \in 1..Len(w) : w[idx] \in {<<0>>, <<1>>}
          /\ \A idx \in 1..Len(s.article_tokens) :
               w[idx] = <<1>> <=>
                 s.article_tokens[idx] \in
                   {s.question_tokens[j] : j \in 1..Len(s.question_tokens)}
          /\ \A idx \in (Len(s.article_tokens) + 1)..Len(w) : w[idx] = <<0>>

\* C10 witness: a batch with a sample that has a token of the question, a
\* token not of the question, and a padding position
C10_Witness ==
  /\ HasBatch
  /\ \E k \in 1..BatchLen :
       /\ \E idx \in 1..Len(batch.raw_data[k].article_tokens) : batch.wiqB[k][idx] = <<1>>
       /\ \E idx \in 1..Len(batch.raw_data[k].article_tokens) : batch.wiqB[k][idx] = <<0>>
       /\ Len(batch.raw_data[k].article_tokens) < batch.article_pad_len

\* C11: in every batch, start_id and end_id have one entry per selected sample,
\* in sample order; for a sample with a non-empty answer_tokens field they are
\* the stored answer_token_start and answer_token_end, -1 and -1 included, and
\* for every other sample they are 0 and 0.
C11_LabelsFromStoredSpan ==
  HasBatch =>
    /\ Len(batch.start_id) = BatchLen
    /\ Len(batch.end_id) = BatchLen
    /\ \A k \in 1..BatchLen :
         LET s == batch.raw_data[k]
         IN  IF s.has_answer_tokens /\ s.answer_tokens # <<>>
             THEN /\ batch.start_id[k] = s.answer_token_start
                  /\ batch.end_id[k] = s.answer_token_end
             ELSE /\ batch.start_id[k] = 0
                  /\ batch.end_id[k] = 0

\* C11 witness: a batch with an answered sample whose span was not located
\* and a sample whose answer is empty
C11_Witness ==
  /\ HasBatch
  /\ \E k \in 1..BatchLen :
       /\ batch.raw_data[k].answer_tokens # <<>>
       /\ batch.start_id[k] = -1 /\ batch.end_id[k] = -1
  /\ \E k \in 1..BatchLen :
       /\ batch.raw_data[k].has_answer_tokens
       /\ batch.raw_data[k].answer_tokens = <<>>
       /\ batch.raw_data[k].answer_token_start = -1
       /\ batch.start_id[k] = 0 /\ batch.end_id[k] = 0

----------------------------------------------------------------------------
(* Properties of _load_dataset. *)

\* C12: in every run, raw preprocessing is run if and only if loading the
\* preprocessed file fails because the file is missing, and at most once; when
\* it completes the preprocessed file exists, and every later run takes the
\* preprocessed path without falling back.
C12_FallbackOnlyWhenMissing ==
  [][LoadDataset =>
       /\ (fallbacks' = 1) <=> (pre_file = Absent)
       /\ fallbacks' \in {0, 1}
       /\ (load_path' = "raw") => (pre_file' # Absent)
       /\ regenerated => (load_path' = "preprocessed" /\ fallbacks' = 0)]_vars

\* C12 witness: a run after a completed raw preprocessing has loaded the
\* samples from the preprocessed file
C12_Witness ==
  /\ regenerated
  /\ load_path = "preprocessed" /\ fallbacks = 0
  /\ loaded_ids # <<>>

\* the samples loaded cover every article of the raw file
CoversRaw ==
  /\ raw_file.kind = "json"
  /\ \A i \in 1..Len(raw_file.records) :
       \E k \in 1..Len(loaded_ids) : loaded_ids[k] = raw_file.records[i].article_id

\* C16: once raw preprocessing of the file has aborted, every later run takes
\* the fallback again or loads samples that cover every article of the raw
\* file (the run that aborted has itself taken the fallback).
C16_AbortLeavesNothingLoadable ==
  aborted => (fallbacks = 1 \/ CoversRaw)

\* What the code keeps: a missing raw file leaves no preprocessed file behind.
MissingRawLeavesNoFile ==
  (aborted /\ raw_file = Absent) => (pre_file = Absent /\ fallbacks = 1)

----------------------------------------------------------------------------
(* Properties of the train/dev split. *)

\* the elements of seq at the places in I, in their order
Pick(seq, I) ==
  LET F[k \in 0..Len(seq)] ==
        IF k = 0 THEN <<>>
        ELSE IF k \in I THEN Append(F[k - 1], seq[k]) ELSE F[k - 1]
  IN  F[Len(seq)]

ArticleIdsOf(seq) == {seq[k].article_id : k \in 1..Len(seq)}

\* the largest integer not above n * q
FloorOfProduct(n, q) ==
  CHOOSE f \in 0..n : f * q.d <= n * q.n /\ (f + 1) * q.d > n * q.n

\* C13: the split leaves every loaded training sample in exactly one of
\* train_set and dev_set, in its original relative order; no article id is in
\* both; the dev set has floor(distinct article ids * dev_split) distinct
\* article ids; test_set is not changed.
C13_SplitPartitionsByArticle ==
  [][SplitDev =>
       /\ \E I \in SUBSET (1..Len(train_set)) :
            /\ dev_set' = Pick(train_set, I)
            /\ train_set' = Pick(train_set, (1..Len(train_set)) \ I)
       /\ ArticleIdsOf(train_set') \cap ArticleIdsOf(dev_set') = {}
       /\ Cardinality(ArticleIdsOf(dev_set')) =
            FloorOfProduct(Cardinality(ArticleIdsOf(train_set)), dev_split)
       /\ test_set' = test_set]_vars

\* C13 witness: a split that put the two samples of one article into the dev
\* set and left samples in the train set, with a test sample loaded
C13_Witness ==
  /\ pc = "idle"
  /\ Len(dev_set) = 2 /\ Cardinality(ArticleIdsOf(dev_set)) = 1
  /\ train_set # <<>>
  /\ test_set # <<>>

----------------------------------------------------------------------------
(* Properties of the character padding. *)

\* entry has `rows` rows of length `width`: the sample's own tokens first, then
\* rows of the character pad id only
CharRowsPadded(entry, tokens, rows, width) ==
  /\ Len(entry) = rows
  /\ \A i \in 1..Len(entry) :
       /\ Len(entry[i]) = width
       /\ i > Len(tokens) =>
            \A j \in 1..width : entry[i][j] = IdOf(char_vocab, PadToken)

ArticleCharsPadded ==
  \A k \in 1..BatchLen :
    CharRowsPadded(batch.article_char_ids[k], batch.raw_data[k].article_tokens,
                   batch.article_pad_len, batch.article_CL)

\* C14: with character embeddings enabled, in every batch each entry of
\* article_char_ids has article_pad_len rows of length article_CL and each
\* entry of question_char_ids has question_pad_len rows of length question_CL,
\* whatever the article and question lengths of the batch; the rows added for
\* absent tokens hold only the character pad id.
C14_CharRowsPadded ==
  (HasBatch /\ use_char_emb) =>
    /\ ArticleCharsPadded
    /\ \A k \in 1..BatchLen :
         CharRowsPadded(batch.question_char_ids[k],
                        batch.raw_data[k].question_tokens,
                        batch.question_pad_len, batch.question_CL)

\* What the code does: the article entries are as in C14; a question entry
\* gets as many pad rows as its length is short of article_pad_len, so it has
\* question_pad_len rows only if it, or the article pad length, is that long.
QuestionCharsPaddedByArticleLen ==
  (HasBatch /\ use_char_emb) =>
    /\ ArticleCharsPadded
    /\ \A k \in 1..BatchLen :
         LET len == Len(batch.raw_data[k].question_tokens)
         IN  CharRowsPadded(batch.question_char_ids[k],
                            batch.raw_data[k].question_tokens,
                            Min(batch.question_pad_len,
                                Max(len, batch.article_pad_len)),
                            batch.question_CL)

----------------------------------------------------------------------------
(* Properties of the score propagation. *)

\* the positions the loop of lines 150-164 selects: with at most 15 sentences
\* every position that is not protected
SelectedPositions ==
  {p \in 1..Len(sent_scores) : p \notin {1, 2, Len(sent_scores)}}

Distance(j, p) == IF j >= p THEN j - p ELSE p - j

\* the largest of a set of quotients, 0 for the empty set
RatMaxOf(S) ==
  IF S = {} THEN Zero ELSE CHOOSE m \in S : \A x \in S : RatLeq(x, m)

\* the weight of a sentence d positions from a selected one: the selected
\* sentence and its neighbours get its score, the next ones half of it
WindowWeight(score, d) == IF d <= 1 THEN score ELSE RatDiv(score, 2)

RatEq(a, b) == a.n * b.d = b.n * a.d

\* C15: the score of a selected sentence at position p reaches only the
\* sentences at most 2 positions from p, the same before and after p, without
\* wraparound; a sentence's propagated score is the largest value that reaches
\* it, and 0 if none does.
C15_SymmetricWindow ==
  pc = "ranked" =>
    \A j \in 1..Len(sent_scores) :
      RatEq(sent_rank[j],
            RatMaxOf({WindowWeight(sent_scores[p], Distance(j, p)) :
                        p \in {q \in SelectedPositions : Distance(j, q) <= 2}}))

\* the weight the code gives to the sentence at j for a selected p: the window
\* is p - 2 .. p + 3, and the sentence 3 positions after p gets a quarter
CodeWeight(score, j, p) ==
  IF j = p + 3 THEN RatDiv(score, 4) ELSE WindowWeight(score, Distance(j, p))

\* What the code does: C15 with the window p - 2 .. p + 3.
WindowReachesThreeAfter ==
  pc = "ranked" =>
    /\ Len(sent_rank) = Len(sent_scores)
    /\ \A j \in 1..Len(sent_scores) :
         RatEq(sent_rank[j],
               RatMaxOf({CodeWeight(sent_scores[p], j, p) :
                           p \in {q \in SelectedPositions : j >= q - 2 /\ j <= q + 3}}))

=============================================================================
